---- MODULE Spec2Model ----
(***************************************************************************)
(* Chunked multipart upload of the file sharing platform: the Upload       *)
(* component (frontend), the file controller (backend), and the storage    *)
(* backend (S3) and metadata store (MongoDB) they talk to.                 *)
(***************************************************************************)
EXTENDS Integers, Sequences, FiniteSets, TLC

\* ---------------------------------------------------------------- constants
CHUNK_SIZE == 5 * 1024 * 1024
MAX_RETRY == 5
NULL == -1             \* the null of useState(null) for progress
NoUploadId == 0        \* an undefined uploadId
QUOTE == 34            \* the character '"'
SuccessMessage == "File uploaded successfully!"
FailureMessage == "Failed to upload file"

\* ------------------------------------------------------------------- bounds
MaxUploads == 2        \* invocations of handleUpload in one run
MaxChunks == 2         \* largest chunkCount of a selectable file
FileNames == {"a"}

\* the empty file, a file of one byte, and a file of MaxChunks chunks whose
\* last chunk is 2 MiB long
FileSizes == {0, 1, (MaxChunks - 1) * CHUNK_SIZE + 2 * 1024 * 1024}

Files == [name : FileNames, size : FileSizes]

\* file sizes around the multiples of CHUNK_SIZE, for the slicing of one file
MaxSliceChunks == 3
SliceSizes ==
  {0} \cup {k * CHUNK_SIZE - 1 : k \in 1..MaxSliceChunks}
      \cup {k * CHUNK_SIZE : k \in 1..MaxSliceChunks}
      \cup {(k - 1) * CHUNK_SIZE + 1 : k \in 1..MaxSliceChunks}
SliceFiles == [name : FileNames, size : SliceSizes]
NullFile == [name |-> "", size |-> NULL]

VARIABLES
  file,        \* useState: the selected file, NullFile when null
  progress,    \* useState: NULL or a percentage
  message,     \* useState: the status message
  uploads,     \* the invocations of handleUpload/uploadChunks, in start order
  now,         \* the last value Date.now() returned
  s3Sessions,  \* storage backend: multipart sessions, indexed by UploadId
  s3Objects,   \* storage backend: keys of the assembled objects
  db           \* metadata store: the File documents, in insertion order

vars == <<file, progress, message, uploads, now, s3Sessions, s3Objects, db>>

\* ------------------------------------------------------------ pure helpers
\* ChunkCount as it would be with Math.floor
ChunkCountFloor(size) == size \div CHUNK_SIZE

\* Math.ceil(file.size / CHUNK_SIZE)
ChunkCount(size) == (size + CHUNK_SIZE - 1) \div CHUNK_SIZE

\* Math.round((totalUploadedBytes / file.size) * 100)
PercentCompleted(total, size) ==
  LET q == (total * 100) \div size
      r == (total * 100) % size
  IN  IF 2 * r >= size THEN q + 1 ELSE q

\* start and end of chunk i (0-based), and chunk.size
ChunkStart(i) == i * CHUNK_SIZE
ChunkEnd(size, i) ==
  IF size < ChunkStart(i) + CHUNK_SIZE THEN size ELSE ChunkStart(i) + CHUNK_SIZE
ChunkLen(size, i) == ChunkEnd(size, i) - ChunkStart(i)

\* the entity tag the storage backend answers for a stored part: a quoted
\* fingerprint of the bytes
ETagOf(size, i) == <<QUOTE, 100 + i, 100 + (ChunkLen(size, i) % 7), QUOTE>>

\* etag.replace(/"/g, '')
StripQuotes(etag) == SelectSeq(etag, LAMBDA c : c # QUOTE)

\* Date.now() + "_" + file.name
DestinationName(t, name) == <<t, name>>

\* Date.now(): the clock has not moved since the last reading, or it has;
\* 0 stands for no reading yet
DateNow == {now, now + 1} \ {0}

\* disabled={progress !== null && progress !== 100}
Disabled == progress # NULL /\ progress # 100

\* useEffect(..., [progress]): runs when progress has changed
FileAfterProgress(p) == IF p = 100 /\ progress # 100 THEN NullFile ELSE file

\* -------------------------------------------------- one upload invocation
\* the locals of one handleUpload/uploadChunks invocation, the HTTP exchange
\* it is waiting for, and what the backend did with its requests
NewUpload(f, t) ==
  [pc |-> "create",            \* the await the invocation is suspended at
   file |-> f,
   fileName |-> DestinationName(t, f.name),
   chunkCount |-> ChunkCount(f.size),
   net |-> "sent",             \* state of the pending backend request
   createStatus |-> 0,         \* create-multipart response: status, body
   createJson |-> FALSE,
   createOutcome |-> "none",   \* what createMultipartUpload did
   completeStatus |-> 0,       \* complete-multipart response status
   completeOutcome |-> "none", \* what completeMultipartUpload did
   uploadId |-> NoUploadId,
   urlsDefined |-> FALSE,
   preSignedUrls |-> <<>>,
   i |-> 0,
   retry |-> 1,
   parts |-> <<>>,
   totalUploadedBytes |-> 0,
   inflight |-> {},            \* part numbers with a PUT awaiting its answer
   lastSent |-> 0,             \* part number of the last PUT issued
   lastOutcome |-> "none",     \* the answer to the last PUT that was answered
   fails |-> 0,                \* consecutive failed attempts of chunk i
   delayMs |-> 0,              \* the delay(ms) being awaited, 0 when none
   completeIssued |-> FALSE,
   notified |-> FALSE,         \* props.onUploadComplete() was called
   thrownAt |-> "none"]        \* the step whose error reached handleUpload

Started == 1..Len(uploads)

\* an error that propagates to the catch of handleUpload
Throw(up, where) ==
  [up EXCEPT !.pc = "failed", !.thrownAt = where, !.net = "none"]

\* SendPut as it would be if the loop did not wait for the chunk before: the
\* PUT of the next chunk leaves with it
SendPutNoAwait(up) ==
  LET pn == up.preSignedUrls[up.i + 1].PartNumber
  IN  [up EXCEPT !.pc = "put",
                 !.inflight = @ \cup ({pn, pn + 1} \cap (1..up.chunkCount)),
                 !.lastSent = pn]

\* fetch(url, {method: 'PUT', body: chunk}) for chunk up.i
SendPut(up) ==
  LET pn == up.preSignedUrls[up.i + 1].PartNumber
  IN  [up EXCEPT !.pc = "put",
                 !.inflight = @ \cup {pn},
                 !.lastSent = pn]

\* fetch(API_ENDPOINT + '/files/complete-multipart', ...); the last call of
\* uploadChunkWithFetch has returned, its retry count is gone
IssueComplete(up) ==
  [up EXCEPT !.pc = "complete", !.net = "sent", !.completeIssued = TRUE,
             !.retry = 1, !.fails = 0]

\* one turn of the for loop: the call uploadChunkWithFetch(preSignedUrls[i], ...)
\* or, past the last chunk, the finalization request
LoopStep(up) ==
  IF up.i < up.chunkCount
    THEN IF up.urlsDefined
           THEN SendPut([up EXCEPT !.retry = 1, !.fails = 0])
           ELSE Throw(up, "urls")
    ELSE IssueComplete(up)

\* OnProgress as it would be with PartNumber: i
OnProgressFromZero(up, etag) ==
  [up EXCEPT !.parts = Append(@, [PartNumber |-> up.i,
                                  ETag |-> StripQuotes(etag)]),
             !.totalUploadedBytes = @ + ChunkLen(up.file.size, up.i)]

\* the onProgress callback of uploadChunks
OnProgress(up, etag) ==
  [up EXCEPT !.parts = Append(@, [PartNumber |-> up.i + 1,
                                  ETag |-> StripQuotes(etag)]),
             !.totalUploadedBytes = @ + ChunkLen(up.file.size, up.i)]

\* BackoffDelay as it would be with a doubling delay
BackoffDelayDoubling(retry) == (2 ^ retry) * 10 * 1000

\* retry * 20 * 1000, the argument of delay
BackoffDelay(retry) == retry * 20 * 1000

\* CatchChunkError as it would be with retry <= MAX_RETRY
CatchChunkErrorOneMore(up) ==
  IF up.retry <= MAX_RETRY
    THEN [up EXCEPT !.pc = "backoff", !.fails = @ + 1,
                    !.delayMs = BackoffDelay(up.retry)]
    ELSE Throw([up EXCEPT !.fails = @ + 1], "chunk")

\* the catch block of uploadChunkWithFetch
CatchChunkError(up) ==
  IF up.retry < MAX_RETRY
    THEN [up EXCEPT !.pc = "backoff", !.fails = @ + 1,
                    !.delayMs = BackoffDelay(up.retry)]
    ELSE Throw([up EXCEPT !.fails = @ + 1], "chunk")

\* s3.completeMultipartUpload: the part list the storage backend assembles
S3Accepts(key, uploadId, parts) ==
  /\ uploadId \in 1..Len(s3Sessions)
  /\ s3Sessions[uploadId].Key = key
  /\ Len(parts) >= 1
  /\ \A k \in 1..(Len(parts) - 1) : parts[k].PartNumber < parts[k + 1].PartNumber
  /\ \A k \in 1..Len(parts) :
       /\ parts[k].PartNumber \in DOMAIN s3Sessions[uploadId].parts
       /\ StripQuotes(s3Sessions[uploadId].parts[parts[k].PartNumber])
            = StripQuotes(parts[k].ETag)

MessageAfter(up) == IF up.pc = "failed" THEN FailureMessage ELSE message

\* ------------------------------------------------------------------- Init
Init ==
  /\ file = NullFile
  /\ progress = NULL
  /\ message = ""
  /\ uploads = <<>>
  /\ now = 0
  /\ s3Sessions = <<>>
  /\ s3Objects = {}
  /\ db = <<>>

\* ------------------------------------------------------- Upload component
handleFileChange(f) ==
  /\ ~Disabled
  /\ file' = f
  /\ progress' = NULL
  /\ message' = ""
  /\ UNCHANGED <<uploads, now, s3Sessions, s3Objects, db>>

\* handleUpload up to the first await of uploadChunks
handleUpload(t) ==
  /\ ~Disabled
  /\ file # NullFile
  /\ Len(uploads) < MaxUploads
  /\ progress' = 0
  /\ file' = FileAfterProgress(0)
  /\ now' = t
  /\ uploads' = Append(uploads, NewUpload(file, t))
  /\ UNCHANGED <<message, s3Sessions, s3Objects, db>>

\* uploadChunks from the answer of create-multipart to the next await
CreateResponse(u) ==
  LET up == uploads[u] IN
  /\ up.pc = "create"
  /\ up.net = "resp"
  /\ IF ~up.createJson
       THEN \* uploadIdResponse.json() rejects
            /\ uploads' = [uploads EXCEPT ![u] = Throw(up, "create")]
            /\ message' = FailureMessage
            /\ UNCHANGED <<progress, file>>
       ELSE LET nx == LoopStep([up EXCEPT !.net = "none"]) IN
            /\ uploads' = [uploads EXCEPT ![u] = nx]
            /\ progress' = 0
            /\ file' = FileAfterProgress(0)
            /\ message' = MessageAfter(nx)
  /\ UNCHANGED <<now, s3Sessions, s3Objects, db>>

\* a fetch of the backend rejects (the request or its answer is lost, or the
\* connection is reset): the catch block of handleUpload
FetchRejected(u) ==
  LET up == uploads[u] IN
  /\ up.pc \in {"create", "complete"}
  /\ up.net \in {"sent", "reset"}
  /\ uploads' = [uploads EXCEPT ![u] = Throw(up, up.pc)]
  /\ message' = FailureMessage
  /\ UNCHANGED <<file, progress, now, s3Sessions, s3Objects, db>>

\* one PUT of chunk i answered: the storage backend stores the part unless the
\* transfer failed; the answer is a failure, a success whose ETag header the
\* client can read, or a success whose ETag header is not exposed
PutResult(u, outcome) ==
  LET up == uploads[u]
      url == up.preSignedUrls[up.i + 1]
      etag == ETagOf(up.file.size, up.i)
      got == [up EXCEPT !.inflight = @ \ {url.PartNumber},
                        !.lastOutcome = outcome]
  IN
  /\ up.pc = "put"
  /\ s3Sessions' =
       IF outcome = "fail" THEN s3Sessions
       ELSE [s3Sessions EXCEPT ![url.UploadId].parts =
               (url.PartNumber :> etag) @@ @]
  /\ IF outcome = "ok"
       THEN LET done == OnProgress(got, etag)
                p == PercentCompleted(done.totalUploadedBytes, done.file.size)
                nx == LoopStep([done EXCEPT !.i = @ + 1])
            IN  /\ uploads' = [uploads EXCEPT ![u] = nx]
                /\ progress' = p
                /\ file' = FileAfterProgress(p)
                /\ message' = MessageAfter(nx)
       ELSE LET nx == CatchChunkError(got) IN
            /\ uploads' = [uploads EXCEPT ![u] = nx]
            /\ message' = MessageAfter(nx)
            /\ UNCHANGED <<progress, file>>
  /\ UNCHANGED <<now, s3Objects, db>>

\* BackoffDone as it would be if the recursive call passed retry = 1
BackoffDoneFirstRetry(u) ==
  /\ uploads[u].pc = "backoff"
  /\ uploads' = [uploads EXCEPT ![u] =
       SendPut([@ EXCEPT !.retry = 1, !.fails = 0, !.delayMs = 0])]
  /\ UNCHANGED <<file, progress, message, now, s3Sessions, s3Objects, db>>

\* await delay(retry * 20 * 1000) is over: uploadChunkWithFetch(..., retry + 1)
BackoffDone(u) ==
  /\ uploads[u].pc = "backoff"
  /\ uploads' = [uploads EXCEPT ![u] =
       SendPut([@ EXCEPT !.retry = @ + 1, !.delayMs = 0])]
  /\ UNCHANGED <<file, progress, message, now, s3Sessions, s3Objects, db>>

\* uploadChunks after the await of complete-multipart
CompleteResponse(u) ==
  LET up == uploads[u] IN
  /\ up.pc = "complete"
  /\ up.net = "resp"
  /\ uploads' = [uploads EXCEPT ![u] =
       [up EXCEPT !.pc = "done", !.net = "none", !.notified = TRUE]]
  /\ message' = SuccessMessage
  /\ UNCHANGED <<file, progress, now, s3Sessions, s3Objects, db>>

\* -------------------------------------------------------- file controller
\* SignedUrls as it would be with PartNumber: i
SignedUrlsFromZero(key, uploadId, chunkCount) ==
  [k \in 1..chunkCount |->
     [Key |-> key, UploadId |-> uploadId, PartNumber |-> k - 1]]

\* the loop of createMultipartUpload: urls[i] is signed for uploadPart with
\* PartNumber i + 1
SignedUrls(key, uploadId, chunkCount) ==
  [k \in 1..chunkCount |->
     [Key |-> key, UploadId |-> uploadId, PartNumber |-> k]]

\* exports.createMultipartUpload
createMultipartUpload(u) ==
  LET up == uploads[u] IN
  /\ up.pc = "create"
  /\ up.net = "sent"
  /\ \/ \* s3.createMultipartUpload rejects, outside the try block: the
        \* handler's promise rejects. No answer is sent, or the process ends
        \* and the connection is reset, or the framework answers with its
        \* own error page
        /\ \E how \in {"dropped", "reset", "resp"} :
             uploads' = [uploads EXCEPT ![u] =
               [up EXCEPT !.net = how, !.createOutcome = "s3fail",
                          !.createStatus = IF how = "resp" THEN 500 ELSE 0]]
        /\ UNCHANGED s3Sessions
     \/ \* the session is opened; signing a URL fails: the catch block
        /\ up.chunkCount > 0
        /\ s3Sessions' = Append(s3Sessions,
                                [Key |-> up.fileName, parts |-> <<>>])
        /\ uploads' = [uploads EXCEPT ![u] =
             [up EXCEPT !.net = "resp", !.createOutcome = "signfail",
                        !.createStatus = 500, !.createJson = TRUE]]
     \/ \* res.json({uploadId, preSignedUrls})
        /\ s3Sessions' = Append(s3Sessions,
                                [Key |-> up.fileName, parts |-> <<>>])
        /\ uploads' = [uploads EXCEPT ![u] =
             [up EXCEPT !.net = "resp", !.createOutcome = "ok",
                        !.createStatus = 200, !.createJson = TRUE,
                        !.uploadId = Len(s3Sessions) + 1,
                        !.urlsDefined = TRUE,
                        !.preSignedUrls =
                          SignedUrls(up.fileName, Len(s3Sessions) + 1,
                                     up.chunkCount)]]
  /\ UNCHANGED <<file, progress, message, now, s3Objects, db>>

\* NewFile as it would be if the size were stored in MiB
NewFileInMiB(fileName, fileSize) ==
  [file_name |-> fileName, file_size |-> fileSize \div (1024 * 1024),
   s3Key |-> fileName]

\* new File({file_name: fileName, file_size: fileSize, s3Key: fileName})
NewFile(fileName, fileSize) ==
  [file_name |-> fileName, file_size |-> fileSize, s3Key |-> fileName]

\* exports.getUploadedFiles, when File.find() succeeds: the documents, the
\* most recently saved first, each with a fresh download URL for its s3Key
GetUploadedFiles ==
  [k \in 1..Len(db) |->
     [file_name |-> db[Len(db) + 1 - k].file_name,
      file_size |-> db[Len(db) + 1 - k].file_size,
      s3Key |-> db[Len(db) + 1 - k].s3Key,
      downloadUrl |-> [Key |-> db[Len(db) + 1 - k].s3Key]]]

\* completeMultipartUpload as it would be if the document were saved before
\* the storage backend is asked to assemble the object
completeMultipartUploadSaveFirst(u) ==
  LET up == uploads[u] IN
  /\ up.pc = "complete"
  /\ up.net = "sent"
  /\ db' = Append(db, NewFile(up.fileName, up.file.size))
  /\ \/ /\ S3Accepts(up.fileName, up.uploadId, up.parts)
        /\ s3Objects' = s3Objects \cup {up.fileName}
        /\ uploads' = [uploads EXCEPT ![u] =
             [up EXCEPT !.net = "resp", !.completeStatus = 200,
                        !.completeOutcome = "ok"]]
     \/ /\ uploads' = [uploads EXCEPT ![u] =
             [up EXCEPT !.net = "resp", !.completeStatus = 500,
                        !.completeOutcome = "rejected"]]
        /\ UNCHANGED s3Objects
  /\ UNCHANGED <<file, progress, message, now, s3Sessions>>

\* exports.completeMultipartUpload
completeMultipartUpload(u) ==
  LET up == uploads[u] IN
  /\ up.pc = "complete"
  /\ up.net = "sent"
  /\ \/ \* the object is assembled and newFile.save() succeeds
        /\ S3Accepts(up.fileName, up.uploadId, up.parts)
        /\ s3Objects' = s3Objects \cup {up.fileName}
        /\ db' = Append(db, NewFile(up.fileName, up.file.size))
        /\ uploads' = [uploads EXCEPT ![u] =
             [up EXCEPT !.net = "resp", !.completeStatus = 200,
                        !.completeOutcome = "ok"]]
     \/ \* the object is assembled and newFile.save() rejects
        /\ S3Accepts(up.fileName, up.uploadId, up.parts)
        /\ s3Objects' = s3Objects \cup {up.fileName}
        /\ uploads' = [uploads EXCEPT ![u] =
             [up EXCEPT !.net = "resp", !.completeStatus = 500,
                        !.completeOutcome = "savefail"]]
        /\ UNCHANGED db
     \/ \* the backend rejects the list or the session, or is unreachable
        /\ uploads' = [uploads EXCEPT ![u] =
             [up EXCEPT !.net = "resp", !.completeStatus = 500,
                        !.completeOutcome = "rejected"]]
        /\ UNCHANGED <<s3Objects, db>>
  /\ UNCHANGED <<file, progress, message, now, s3Sessions>>

\* ------------------------------------------------------------------- Next
Next ==
  \/ \E f \in Files : handleFileChange(f)
  \/ \E t \in DateNow : handleUpload(t)
  \/ \E u \in Started : createMultipartUpload(u)
  \/ \E u \in Started : CreateResponse(u)
  \/ \E u \in Started : FetchRejected(u)
  \/ \E u \in Started, outcome \in {"ok", "fail", "noetag"} : PutResult(u, outcome)
  \/ \E u \in Started : BackoffDone(u)
  \/ \E u \in Started : completeMultipartUpload(u)
  \/ \E u \in Started : CompleteResponse(u)

Spec == Init /\ [][Next]_vars

\* the steps of invocation u: the continuations the event loop runs once a
\* promise has settled or a timer has fired, and the two backend handlers
UploadStep(u) ==
  /\ u \in Started
  /\ \/ createMultipartUpload(u)
     \/ CreateResponse(u)
     \/ FetchRejected(u)
     \/ \E outcome \in {"ok", "fail", "noetag"} : PutResult(u, outcome)
     \/ BackoffDone(u)
     \/ completeMultipartUpload(u)
     \/ CompleteResponse(u)

\* every pending continuation is eventually run
FairSpec == Spec /\ \A u \in 1..MaxUploads : WF_vars(UploadStep(u))

\* one invocation for a file drawn from SliceFiles
InitSlicing ==
  /\ file \in SliceFiles
  /\ progress = NULL
  /\ message = ""
  /\ uploads = <<>>
  /\ now = 0
  /\ s3Sessions = <<>>
  /\ s3Objects = {}
  /\ db = <<>>

NextSlicing == Next /\ Len(uploads') <= 1

SpecSlicing == InitSlicing /\ [][NextSlicing]_vars

\* the first file selected is one byte longer than a chunk: the percentage
\* rounds to 100 when its first chunk has returned
RoundingFiles == [name : FileNames, size : {CHUNK_SIZE + 1}]

InitRounding ==
  /\ file \in RoundingFiles
  /\ progress = NULL
  /\ message = ""
  /\ uploads = <<>>
  /\ now = 0
  /\ s3Sessions = <<>>
  /\ s3Objects = {}
  /\ db = <<>>

SpecRounding == InitRounding /\ [][Next]_vars

\* a repeated request is saved only while the metadata store holds fewer
\* documents than this
MaxRecords == MaxUploads + 1

\* exports.completeMultipartUpload run for a second request that carries the
\* body of invocation u's complete-multipart request (a repeated or
\* re-delivered POST): the handler keeps nothing between two calls, and its
\* answer goes to the sender of the repeated request
completeMultipartUploadAgain(u) ==
  LET up == uploads[u] IN
  /\ up.completeIssued
  /\ \/ \* the storage backend answers the repeated finalization with success
        \* and newFile.save() succeeds
        /\ S3Accepts(up.fileName, up.uploadId, up.parts)
        /\ Len(db) < MaxRecords
        /\ s3Objects' = s3Objects \cup {up.fileName}
        /\ db' = Append(db, NewFile(up.fileName, up.file.size))
     \/ \* ... and newFile.save() rejects
        /\ S3Accepts(up.fileName, up.uploadId, up.parts)
        /\ s3Objects' = s3Objects \cup {up.fileName}
        /\ UNCHANGED db
     \/ \* the backend rejects the request (the session is gone): status 500
        /\ UNCHANGED <<s3Objects, db>>
  /\ UNCHANGED <<file, progress, message, uploads, now, s3Sessions>>

NextReplay ==
  \/ Next
  \/ \E u \in Started : completeMultipartUploadAgain(u)

SpecReplay == Init /\ [][NextReplay]_vars

\* ================================================================== claims
\* the tokens the part list of an invocation holds for part number pn
Tokens(up, pn) ==
  Cardinality({k \in 1..Len(up.parts) : up.parts[k].PartNumber = pn})

InFlight(up) == up.pc \in {"create", "put", "backoff", "complete"}

Finalized(up) == up.pc = "done" /\ up.completeStatus = 200

\* C1: the part list sent to complete-multipart has exactly chunkCount
\* entries, and their PartNumbers are 1, 2, ..., chunkCount in this order.
C1_PartListContiguous ==
  \A u \in Started :
    uploads[u].completeIssued =>
      /\ Len(uploads[u].parts) = uploads[u].chunkCount
      /\ \A k \in 1..Len(uploads[u].parts) : uploads[u].parts[k].PartNumber = k

C1_Witness ==
  \E u \in Started :
    /\ uploads[u].completeIssued
    /\ uploads[u].chunkCount = MaxChunks
    /\ uploads[u].chunkCount > 1

\* C2: while a chunk is being transferred it has failed fewer than MAX_RETRY
\* times in a row and has no token; an attempt that succeeds adds exactly one
\* token and the upload goes on; an attempt that fails adds none, and the
\* upload aborts exactly when this was the MAX_RETRY-th failure in a row.
C2_RetryStep(up, nx) ==
  /\ up.fails = up.retry - 1
  /\ up.fails < MAX_RETRY
  /\ Tokens(up, up.i + 1) = 0
  /\ nx.lastOutcome = "ok" =>
       /\ Tokens(nx, up.i + 1) = 1
       /\ Len(nx.parts) = Len(up.parts) + 1
       /\ nx.pc \in {"put", "complete"}
  /\ nx.lastOutcome # "ok" =>
       /\ nx.parts = up.parts
       /\ nx.fails = up.fails + 1
       /\ nx.pc = IF nx.fails >= MAX_RETRY THEN "failed" ELSE "backoff"

C3_ProgressOnlyAfterFinalization ==
  [][/\ (Len(uploads') = Len(uploads) /\ progress # NULL /\ progress' # NULL)
          => progress' >= progress
     /\ progress' = 100 => \E u \in Started : Finalized(uploads'[u])]_vars

\* C4: an invocation whose finalization call was answered with an error does
\* not signal onUploadComplete and does not end as a success.
C4_FinalizationFailureSurfaced ==
  \A u \in Started :
    uploads[u].completeStatus = 500 =>
      /\ ~uploads[u].notified
      /\ uploads[u].pc \in {"complete", "failed"}

\* C5: when the storage backend fails to open the session, createSession
\* answers the request, and the invocation sends no chunk and no
\* finalization request.
C5_SessionFailureAnswered ==
  \A u \in Started :
    uploads[u].createOutcome = "s3fail" =>
      /\ uploads[u].net \in {"resp", "none"}
      /\ uploads[u].pc \in {"create", "failed"}
      /\ uploads[u].lastSent = 0
      /\ ~uploads[u].completeIssued

\* C6: every record of the metadata store has a storage key whose object was
\* assembled, and a finalization the backend rejects is answered with an
\* error and leaves the metadata store as it was.
C6_RecordOnlyAfterAssembly ==
  /\ [](\A k \in 1..Len(db) : db[k].s3Key \in s3Objects)
  /\ [][\A u \in Started :
          (uploads[u].completeOutcome = "none"
             /\ uploads'[u].completeOutcome = "rejected") =>
            /\ db' = db
            /\ uploads'[u].completeStatus = 500]_vars

C6_Witness ==
  /\ Len(db) >= 1
  /\ \E u \in Started : uploads[u].completeOutcome = "rejected"

\* C7: the finalization request is issued only when every chunk has returned
\* a token, and an invocation in which a chunk exhausted its retries issues
\* no finalization request and no record exists for its destination name.
C7_FinalizeOnlyAfterAllChunks ==
  \A u \in Started :
    /\ uploads[u].completeIssued =>
         \A pn \in 1..uploads[u].chunkCount : Tokens(uploads[u], pn) = 1
    /\ uploads[u].thrownAt = "chunk" =>
         /\ ~uploads[u].completeIssued
         /\ \A k \in 1..Len(db) : db[k].s3Key # uploads[u].fileName

\* C8: while an invocation is in flight the controls are disabled, and no
\* two invocations are in flight at once.
C8_ControlsDisabledInFlight ==
  /\ \A u \in Started : InFlight(uploads[u]) => Disabled
  /\ Cardinality({u \in Started : InFlight(uploads[u])}) <= 1

\* C9: an invocation has at most one chunk transfer in flight, and a PUT for
\* part pn is issued only when parts 1..pn-1 have each returned their token,
\* part pn has not, and no PUT for a later part was issued before.
C9_PutIssued(up, nx) ==
  \A pn \in nx.inflight \ up.inflight :
    /\ pn >= up.lastSent
    /\ Len(nx.parts) = pn - 1
    /\ \A q \in 1..(pn - 1) : Tokens(nx, q) = 1

C9_SequentialChunks ==
  /\ [](\A u \in Started : Cardinality(uploads[u].inflight) <= 1)
  /\ [][\A u \in Started : C9_PutIssued(uploads[u], uploads'[u])]_vars

C9_Witness ==
  \E u \in Started :
    /\ uploads[u].inflight = {2}
    /\ uploads[u].retry > 1
    /\ Len(uploads[u].parts) = 1

\* C10: when the finalization call of an invocation succeeds, the status
\* message is the success message, no file is selected and the controls are
\* enabled.
C10_ReadyAfterSuccess ==
  [][\A u \in Started :
       (uploads[u].pc = "complete" /\ Finalized(uploads'[u])) =>
         /\ message' = SuccessMessage
         /\ file' = NullFile
         /\ ~Disabled']_vars

\* C11: any two invocations derive different destination names, so no two
\* of them share an object key or the key of a multipart session.
C11_DistinctDestinationNames ==
  \A u, v \in Started :
    u # v =>
      /\ uploads[u].fileName # uploads[v].fileName
      /\ \A a, b \in 1..Len(s3Sessions) :
           (a = uploads[u].uploadId /\ b = uploads[v].uploadId)
             => s3Sessions[a].Key # s3Sessions[b].Key

\* C12: chunkCount is ceil(size / CHUNK_SIZE); the byte ranges of the chunks
\* are non-empty, start at 0, follow one another without gap or overlap and
\* end at size; every chunk but the last is CHUNK_SIZE long and the last is
\* size - (chunkCount - 1) * CHUNK_SIZE <= CHUNK_SIZE long; the bytes counted
\* as uploaded are those of the chunks before the current one, and all of
\* them when the finalization request is sent.
C12_Ranges(size, n) ==
  /\ n * CHUNK_SIZE >= size
  /\ IF size = 0 THEN n = 0 ELSE (n - 1) * CHUNK_SIZE < size
  /\ n > 0 => ChunkStart(0) = 0 /\ ChunkEnd(size, n - 1) = size
  /\ \A i \in 0..(n - 1) :
       /\ ChunkStart(i) < ChunkEnd(size, i)
       /\ i < n - 1 => /\ ChunkLen(size, i) = CHUNK_SIZE
                       /\ ChunkEnd(size, i) = ChunkStart(i + 1)
       /\ i = n - 1 => /\ ChunkLen(size, i) = size - (n - 1) * CHUNK_SIZE
                       /\ ChunkLen(size, i) <= CHUNK_SIZE

C12_ChunkPartition ==
  \A u \in Started :
    LET up == uploads[u] IN
    /\ C12_Ranges(up.file.size, up.chunkCount)
    /\ up.pc \in {"put", "backoff"} =>
         /\ up.i < up.chunkCount
         /\ up.totalUploadedBytes = ChunkStart(up.i)
    /\ up.completeIssued => up.totalUploadedBytes = up.file.size

C12_Witness ==
  \E u \in Started :
    /\ uploads[u].completeIssued
    /\ uploads[u].chunkCount = MaxSliceChunks
    /\ uploads[u].file.size % CHUNK_SIZE # 0
    /\ uploads[u].totalUploadedBytes = uploads[u].file.size

\* C13: once completeSession has succeeded for an invocation, the listing
\* holds a record whose file_name and s3Key are the destination name the
\* invocation used for its session and for its finalization request, and
\* whose file_size is the size of the file.
C13_RoundTrip ==
  \A u \in Started :
    uploads[u].completeOutcome = "ok" =>
      /\ uploads[u].uploadId \in 1..Len(s3Sessions)
      /\ s3Sessions[uploads[u].uploadId].Key = uploads[u].fileName
      /\ Len(uploads[u].parts) = uploads[u].chunkCount
      /\ \E k \in 1..Len(GetUploadedFiles) :
           /\ GetUploadedFiles[k].file_name = uploads[u].fileName
           /\ GetUploadedFiles[k].s3Key = uploads[u].fileName
           /\ GetUploadedFiles[k].downloadUrl.Key = uploads[u].fileName
           /\ GetUploadedFiles[k].file_size = uploads[u].file.size

C13_Witness ==
  \E u \in Started :
    /\ uploads[u].completeOutcome = "ok"
    /\ uploads[u].chunkCount = MaxChunks
    /\ Len(GetUploadedFiles) >= 1
    /\ GetUploadedFiles[1].file_size = uploads[u].file.size

\* C14: createSession answers with chunkCount authorizations, the one at
\* index i signed for PartNumber i + 1 of the invocation's session; chunk i
\* is sent with the authorization at index i; and every token of the part
\* list carries the part number under which the bytes of its chunk are
\* stored, with the entity tag of these bytes.
C14_PartNumbersMatch ==
  \A u \in Started :
    LET up == uploads[u] IN
    up.urlsDefined =>
      /\ Len(up.preSignedUrls) = up.chunkCount
      /\ \A k \in 1..Len(up.preSignedUrls) :
           /\ up.preSignedUrls[k].PartNumber = k
           /\ up.preSignedUrls[k].UploadId = up.uploadId
           /\ up.preSignedUrls[k].Key = up.fileName
      /\ \A pn \in up.inflight : pn = up.i + 1
      /\ \A k \in 1..Len(up.parts) :
           LET pn == up.parts[k].PartNumber
               stored == s3Sessions[up.uploadId].parts
           IN  /\ pn \in DOMAIN stored
               /\ stored[pn] = ETagOf(up.file.size, pn - 1)
               /\ up.parts[k].ETag = StripQuotes(stored[pn])

C14_Witness ==
  \E u \in Started :
    /\ uploads[u].urlsDefined
    /\ Len(uploads[u].parts) = MaxChunks
    /\ Len(uploads[u].parts) > 1

C16_ProgressAfterChunks(up) ==
  IF up.i = 0 THEN 0
  ELSE PercentCompleted(up.totalUploadedBytes, up.file.size)

\* C16: when a chunk exhausts its retries the status message becomes the
\* failure message and progress keeps the value reached after the chunk
\* before (0 when there is none); afterwards the invocation transfers no
\* chunk and appends no token.
C16_AbortFreezes ==
  [][\A u \in Started :
       /\ (uploads[u].pc = "put" /\ uploads'[u].thrownAt = "chunk") =>
            /\ message' = FailureMessage
            /\ progress' = progress
            /\ progress' = C16_ProgressAfterChunks(uploads[u])
       /\ uploads[u].thrownAt = "chunk" =>
            /\ uploads'[u] = uploads[u]
            /\ uploads[u].inflight = {}]_vars

\* C17: when the object was assembled and saving its document failed, the
\* handler has answered with an error, the object is in storage, and no
\* listed document points at it.
C17_SaveFailureNotListed ==
  \A u \in Started :
    uploads[u].completeOutcome = "savefail" =>
      /\ uploads[u].completeStatus = 500
      /\ uploads[u].fileName \in s3Objects
      /\ \A k \in 1..Len(GetUploadedFiles) :
           GetUploadedFiles[k].s3Key # uploads[u].fileName

\* C18: a chunk is sent again only after its previous attempt ended in a
\* network error or a non-success response; after a success response, with
\* whatever headers, the chunk is not sent again.
C18_ResendOnlyAfterFailure ==
  [][\A u \in Started :
       (uploads[u].pc = "backoff" /\ uploads'[u].pc = "put"
          /\ uploads'[u].inflight # {}) =>
         uploads[u].lastOutcome = "fail"]_vars

\* C19: the controls are not left disabled when no invocation is in flight:
\* in such a state neither control can be used and no request is pending,
\* so nothing would ever enable them again.
C19_ControlsEnabledWhenIdle ==
  (\A u \in Started : ~InFlight(uploads[u])) => ~Disabled

\* the chunk transfers of an invocation, counted by the position of the
\* current call: MAX_RETRY for every chunk before chunk i, retry for chunk i
C20_TransferRank(up) == up.i * MAX_RETRY + up.retry

C20_Terminal(up) == up.pc \in {"done", "failed"}

C20_RequestStep(up, nx) ==
  \* no second create-multipart request
  /\ nx.pc = "create" => up.pc = "create" /\ (nx.net = "sent" => up.net = "sent")
  \* every chunk transfer issued is one of chunkCount * MAX_RETRY positions,
  \* later than the position of every transfer before
  /\ (nx.pc = "put" /\ (up.pc # "put" \/ nx.i # up.i)) =>
       /\ nx.i < nx.chunkCount
       /\ nx.retry \in 1..MAX_RETRY
       /\ C20_TransferRank(nx) <= nx.chunkCount * MAX_RETRY
       /\ up.pc # "create" => C20_TransferRank(nx) > C20_TransferRank(up)
  \* no second complete-multipart request
  /\ (nx.pc = "complete" /\ nx.net = "sent") =>
       \/ up.pc = "complete" /\ up.net = "sent"
       \/ ~up.completeIssued
  \* a terminal status is final and comes with its message
  /\ C20_Terminal(up) => nx = up
  /\ (~C20_Terminal(up) /\ nx.pc = "done") => message' = SuccessMessage
  /\ (~C20_Terminal(up) /\ nx.pc = "failed") => message' = FailureMessage

\* C20: unless one of its requests never returns, every invocation reaches a
\* terminal status with its message, after one create-multipart request, at
\* most chunkCount * MAX_RETRY chunk transfers and at most one
\* complete-multipart request.
C20_Terminates ==
  /\ \A u \in 1..MaxUploads :
       (u \in Started) ~>
         (u \in Started /\ (C20_Terminal(uploads[u]) \/ uploads[u].net = "dropped"))
  /\ [][\A u \in Started : C20_RequestStep(uploads[u], uploads'[u])]_vars

C20_Witness ==
  \E u \in Started :
    /\ uploads[u].pc = "failed"
    /\ uploads[u].thrownAt = "chunk"
    /\ uploads[u].chunkCount = MaxChunks
    /\ uploads[u].i = MaxChunks - 1
    /\ C20_TransferRank(uploads[u]) = MaxChunks * MAX_RETRY

\* C21: the metadata store never holds two documents with the same s3Key,
\* also when the finalization handler runs twice for the same session id
\* and destination name.
C21_OneRecordPerKey ==
  \A j, k \in 1..Len(db) : db[j].s3Key = db[k].s3Key => j = k

====
